---- MODULE Spec2Model ----
(***************************************************************************)
(* Model of sec_connector: the validated data model (models.py) and the    *)
(* lookup/filter engine SECClient (client.py).                             *)
(*                                                                         *)
(* Python strings are modelled as sequences of one-character strings, so   *)
(* that upper(), strip(), zfill(), split() and int() are computed rather   *)
(* than assumed.  An optional value (None / present) is a sequence of      *)
(* length 0 or 1.  A calendar date is a triple <<year, month, day>>.       *)
(***************************************************************************)
EXTENDS Integers, Sequences, FiniteSets, TLC

VARIABLES companies_by_ticker, filings, call, ret

vars == <<companies_by_ticker, filings, call, ret>>

(***************************************************************************)
(* Bounds of the model.                                                    *)
(***************************************************************************)
MaxRecs == 3        \* raw filing records under one CIK
MaxCompanies == 2   \* entries of the raw company mapping

(***************************************************************************)
(* Python str primitives.                                                  *)
(***************************************************************************)
None == <<>>
Some(x) == <<x>>

DigitChars == {"0", "1", "2", "3", "4", "5", "6", "7", "8", "9"}

DigitVal(c) ==
    CASE c = "0" -> 0 [] c = "1" -> 1 [] c = "2" -> 2 [] c = "3" -> 3
      [] c = "4" -> 4 [] c = "5" -> 5 [] c = "6" -> 6 [] c = "7" -> 7
      [] c = "8" -> 8 [] c = "9" -> 9

\* str.upper(), one character
UpperCh(c) ==
    CASE c = "a" -> "A" [] c = "b" -> "B" [] c = "k" -> "K"
      [] c = "q" -> "Q" [] c = "x" -> "X" [] OTHER -> c

\* str.upper()
Upper(s) == [i \in 1..Len(s) |-> UpperCh(s[i])]

RECURSIVE LStrip(_)
LStrip(s) == IF s # <<>> /\ s[1] = " " THEN LStrip(Tail(s)) ELSE s

RECURSIVE RStrip(_)
RStrip(s) ==
    IF s # <<>> /\ s[Len(s)] = " " THEN RStrip(SubSeq(s, 1, Len(s) - 1)) ELSE s

\* str.strip()
Strip(s) == RStrip(LStrip(s))

Zeros(n) == [i \in 1..n |-> "0"]

\* str.zfill(width): pads after a leading sign, never truncates
Zfill(s, width) ==
    IF Len(s) >= width THEN s
    ELSE IF s # <<>> /\ s[1] \in {"+", "-"}
         THEN <<s[1]>> \o Zeros(width - Len(s)) \o Tail(s)
         ELSE Zeros(width - Len(s)) \o s

\* str.isdigit()
IsDigit(s) == s # <<>> /\ \A i \in 1..Len(s) : s[i] \in DigitChars

\* str.split('-')
RECURSIVE Split(_)
Split(s) ==
    IF \E i \in 1..Len(s) : s[i] = "-"
    THEN LET i == CHOOSE j \in 1..Len(s) :
                     s[j] = "-" /\ \A k \in 1..(j - 1) : s[k] # "-"
         IN  <<SubSeq(s, 1, i - 1)>> \o Split(SubSeq(s, i + 1, Len(s)))
    ELSE <<s>>

RECURSIVE DigitsValue(_)
DigitsValue(s) ==
    IF s = <<>> THEN 0
    ELSE 10 * DigitsValue(SubSeq(s, 1, Len(s) - 1)) + DigitVal(s[Len(s)])

\* int(str): None models ValueError
ParseInt(p) ==
    LET t == Strip(p)
        signed == t # <<>> /\ t[1] \in {"+", "-"}
        body == IF signed THEN Tail(t) ELSE t
    IN  IF ~IsDigit(body) THEN None
        ELSE IF signed /\ t[1] = "-" THEN Some(0 - DigitsValue(body))
        ELSE Some(DigitsValue(body))

IsLeap(y) == (y % 4 = 0 /\ y % 100 # 0) \/ y % 400 = 0

DaysInMonth(y, m) ==
    IF m = 2 THEN (IF IsLeap(y) THEN 29 ELSE 28)
    ELSE IF m \in {4, 6, 9, 11} THEN 30 ELSE 31

\* datetime.date(y, m, d): None models ValueError
MakeDate(y, m, d) ==
    IF y >= 1 /\ y <= 9999 /\ m >= 1 /\ m <= 12 /\ d >= 1 /\ d <= DaysInMonth(y, m)
    THEN Some(<<y, m, d>>)
    ELSE None

\* date comparison a <= b
DateLeq(a, b) ==
    \/ a[1] < b[1]
    \/ a[1] = b[1] /\ a[2] < b[2]
    \/ a[1] = b[1] /\ a[2] = b[2] /\ a[3] <= b[3]

DateLt(a, b) == DateLeq(a, b) /\ a # b

(***************************************************************************)
(* models.py                                                               *)
(***************************************************************************)
CikLen == 10
MaxLimit == 1000

\* Company.ticker: Field(min_length=1), then the validator ticker_uppercase
CompanyTicker(v) == IF Len(v) < 1 THEN None ELSE Some(Strip(Upper(v)))

\* variant of CompanyCik: the length is not checked again after the trim
CompanyCikNoLenCheck(v) ==
    IF Len(v) < CikLen \/ Len(v) > CikLen THEN None
    ELSE LET s == Strip(v)
         IN  IF ~IsDigit(s) THEN None ELSE Some(s)

\* Company.cik: Field(min_length=10, max_length=10), then validate_cik
CompanyCik(v) ==
    IF Len(v) < CikLen \/ Len(v) > CikLen THEN None
    ELSE LET s == Strip(v)
         IN  IF ~IsDigit(s) THEN None
             ELSE IF Len(s) # CikLen THEN None
             ELSE Some(s)

\* Company.name: Field(min_length=1)
CompanyName(v) == IF Len(v) < 1 THEN None ELSE Some(v)

\* Company(ticker=, cik=, name=): None models pydantic's ValidationError
Company(ticker, cik, name) ==
    LET t == CompanyTicker(ticker)
        c == CompanyCik(cik)
        n == CompanyName(name)
    IN  IF t = None \/ c = None \/ n = None THEN None
        ELSE Some([ticker |-> t[1], cik |-> c[1], name |-> n[1]])

\* Filing.normalize_form_type
NormalizeFormType(v) == Strip(Upper(v))

\* Filing(cik=, company_name=, form_type=, filing_date=, accession_number=)
Filing(cik, company_name, form_type, filing_date, accession_number) ==
    [cik |-> cik, company_name |-> company_name,
     form_type |-> NormalizeFormType(form_type),
     filing_date |-> filing_date, accession_number |-> accession_number]

RECURSIVE KeepNonEmpty(_)
KeepNonEmpty(v) ==
    IF v = <<>> THEN <<>>
    ELSE IF Strip(Head(v)) # <<>>
         THEN <<Strip(Upper(Head(v)))>> \o KeepNonEmpty(Tail(v))
         ELSE KeepNonEmpty(Tail(v))

\* FilingFilter.normalize_form_types
NormalizeFormTypes(v) == IF v = None THEN None ELSE Some(KeepNonEmpty(v[1]))

\* variant of ValidateDateRange: date_to equal to date_from is rejected too
ValidateDateRangeStrict(v, date_from) ==
    ~(v # None /\ date_from # None /\ DateLeq(v[1], date_from[1]))

\* FilingFilter.validate_date_range: TRUE when date_to is accepted
ValidateDateRange(v, date_from) ==
    ~(v # None /\ date_from # None /\ DateLt(v[1], date_from[1]))

\* FilingFilter.limit: Field(10, gt=0, le=1000)
LimitOk(limit) == limit > 0 /\ limit <= MaxLimit

\* FilingFilter(form_types=, date_from=, date_to=, limit=)
FilingFilter(form_types, date_from, date_to, limit) ==
    IF ~ValidateDateRange(date_to, date_from) \/ ~LimitOk(limit) THEN None
    ELSE Some([form_types |-> NormalizeFormTypes(form_types),
               date_from |-> date_from, date_to |-> date_to, limit |-> limit])

(***************************************************************************)
(* client.py: SECClient                                                    *)
(***************************************************************************)
EmptyDict == [k \in {} |-> <<>>]

\* SECClient.__init__: the ticker index; a later entry replaces an earlier
\* one with the same normalized ticker
RECURSIVE BuildTickerIndex(_)
BuildTickerIndex(items) ==
    IF items = <<>> THEN EmptyDict
    ELSE LET prev == BuildTickerIndex(SubSeq(items, 1, Len(items) - 1))
             company_info == items[Len(items)]
             ticker == Strip(Upper(company_info.ticker))
         IN  [k \in DOMAIN prev \cup {ticker} |->
                 IF k = ticker THEN company_info ELSE prev[k]]

\* variant of lookup_company: the argument is trimmed but not uppercased
lookup_companyNoUpper(index, ticker) ==
    IF ticker = <<>> \/ Strip(ticker) = <<>>
    THEN [kind |-> "InvalidInput", value |-> <<>>]
    ELSE LET t == Strip(ticker)
         IN  IF t \notin DOMAIN index
             THEN [kind |-> "NotFound", value |-> <<>>]
             ELSE LET company_data == index[t]
                      cik == Zfill(company_data.cik_str, CikLen)
                      c == Company(t, cik, company_data.title)
                  IN  IF c = None
                      THEN [kind |-> "ValidationError", value |-> <<>>]
                      ELSE [kind |-> "ok", value |-> c]

\* SECClient.lookup_company
lookup_company(index, ticker) ==
    IF ticker = <<>> \/ Strip(ticker) = <<>>
    THEN [kind |-> "InvalidInput", value |-> <<>>]
    ELSE LET t == Strip(Upper(ticker))
         IN  IF t \notin DOMAIN index
             THEN [kind |-> "NotFound", value |-> <<>>]
             ELSE LET company_data == index[t]
                      cik == Zfill(company_data.cik_str, CikLen)
                      c == Company(t, cik, company_data.title)
                  IN  IF c = None
                      THEN [kind |-> "ValidationError", value |-> <<>>]
                      ELSE [kind |-> "ok", value |-> c]

\* SECClient._parse_date: None models the ValueError it raises
ParseDate(date_str) ==
    LET parts == Split(date_str)
    IN  IF Len(parts) < 3 THEN None
        ELSE LET y == ParseInt(parts[1])
                 m == ParseInt(parts[2])
                 d == ParseInt(parts[3])
             IN  IF y = None \/ m = None \/ d = None THEN None
                 ELSE MakeDate(y[1], m[1], d[1])

FilingKeys == {"company_name", "form_type", "filing_date", "accession_number"}

\* variant of TryFiling: an unparsable date falls back to date.min
TryFilingDefaultDate(cik, filing_data) ==
    IF ~(FilingKeys \subseteq DOMAIN filing_data) THEN None
    ELSE LET d == ParseDate(filing_data.filing_date)
         IN  Some(Filing(cik, filing_data.company_name, filing_data.form_type,
                         IF d = None THEN <<1, 1, 1>> ELSE d[1],
                         filing_data.accession_number))

\* the body of the try block of list_filings: None when any exception is
\* raised (missing key, unparsable date)
TryFiling(cik, filing_data) ==
    IF ~(FilingKeys \subseteq DOMAIN filing_data) THEN None
    ELSE LET d == ParseDate(filing_data.filing_date)
         IN  IF d = None THEN None
             ELSE Some(Filing(cik, filing_data.company_name,
                              filing_data.form_type, d[1],
                              filing_data.accession_number))

\* the conversion loop of list_filings
RECURSIVE ConvertFilings(_, _)
ConvertFilings(cik, raw_filings) ==
    IF raw_filings = <<>> THEN <<>>
    ELSE TryFiling(cik, Head(raw_filings)) \o ConvertFilings(cik, Tail(raw_filings))

\* the form_types branch of _apply_filters
FormTypeFilterApplies(filters) ==
    filters.form_types # None /\ filters.form_types[1] # <<>>

\* variant of ApplyFilters: date_from is an exclusive bound
ApplyFiltersExclusiveFrom(fs, filters) ==
    LET form_types_upper ==
            {Upper(filters.form_types[1][i]) : i \in 1..Len(filters.form_types[1])}
        ByForm(f) == Upper(f.form_type) \in form_types_upper
        ByFrom(f) == DateLt(filters.date_from[1], f.filing_date)
        ByTo(f) == DateLeq(f.filing_date, filters.date_to[1])
        r1 == IF FormTypeFilterApplies(filters) THEN SelectSeq(fs, ByForm) ELSE fs
        r2 == IF filters.date_from # None THEN SelectSeq(r1, ByFrom) ELSE r1
        r3 == IF filters.date_to # None THEN SelectSeq(r2, ByTo) ELSE r2
    IN  r3

\* SECClient._apply_filters
ApplyFilters(fs, filters) ==
    LET form_types_upper ==
            {Upper(filters.form_types[1][i]) : i \in 1..Len(filters.form_types[1])}
        ByForm(f) == Upper(f.form_type) \in form_types_upper
        ByFrom(f) == DateLeq(filters.date_from[1], f.filing_date)
        ByTo(f) == DateLeq(f.filing_date, filters.date_to[1])
        r1 == IF FormTypeFilterApplies(filters) THEN SelectSeq(fs, ByForm) ELSE fs
        r2 == IF filters.date_from # None THEN SelectSeq(r1, ByFrom) ELSE r1
        r3 == IF filters.date_to # None THEN SelectSeq(r2, ByTo) ELSE r2
    IN  r3

\* variant of SortByDateDesc: ascending stable sort, then reversed, so that
\* equal dates come out in reverse order
RECURSIVE SortAscendingReversed(_)
SortAscendingReversed(fs) ==
    IF fs = <<>> THEN <<>>
    ELSE LET rest == SortAscendingReversed(SubSeq(fs, 1, Len(fs) - 1))
             x == fs[Len(fs)]
             k == Cardinality({i \in 1..Len(rest) :
                                  DateLt(x.filing_date, rest[i].filing_date)})
         IN  SubSeq(rest, 1, k) \o <<x>> \o SubSeq(rest, k + 1, Len(rest))

\* list.sort(key=filing_date, reverse=True): stable, most recent first
RECURSIVE SortByDateDesc(_)
SortByDateDesc(fs) ==
    IF fs = <<>> THEN <<>>
    ELSE LET rest == SortByDateDesc(SubSeq(fs, 1, Len(fs) - 1))
             x == fs[Len(fs)]
             k == Cardinality({i \in 1..Len(rest) :
                                  DateLeq(x.filing_date, rest[i].filing_date)})
         IN  SubSeq(rest, 1, k) \o <<x>> \o SubSeq(rest, k + 1, Len(rest))

\* variant of Truncate: the slice keeps one entry too many
TruncateOffByOne(fs, limit) ==
    SubSeq(fs, 1, IF limit + 1 < Len(fs) THEN limit + 1 ELSE Len(fs))

\* the slice filtered[:limit]
Truncate(fs, limit) ==
    IF limit >= 0
    THEN SubSeq(fs, 1, IF limit < Len(fs) THEN limit ELSE Len(fs))
    ELSE SubSeq(fs, 1, IF Len(fs) + limit > 0 THEN Len(fs) + limit ELSE 0)

\* variant of list_filings: only the empty string is rejected as empty
list_filingsNoBlankCheck(index, cik, filters) ==
    IF cik = <<>>
    THEN [kind |-> "InvalidInput", value |-> <<>>]
    ELSE LET c == Zfill(Strip(cik), CikLen)
         IN  IF c \notin DOMAIN index
             THEN [kind |-> "NotFound", value |-> <<>>]
             ELSE LET fs == ConvertFilings(c, index[c])
                      filtered == ApplyFilters(fs, filters)
                  IN  [kind |-> "ok",
                       value |-> Truncate(SortByDateDesc(filtered), filters.limit)]

\* SECClient.list_filings
list_filings(index, cik, filters) ==
    IF cik = <<>> \/ Strip(cik) = <<>>
    THEN [kind |-> "InvalidInput", value |-> <<>>]
    ELSE LET c == Zfill(Strip(cik), CikLen)
         IN  IF c \notin DOMAIN index
             THEN [kind |-> "NotFound", value |-> <<>>]
             ELSE LET fs == ConvertFilings(c, index[c])
                      filtered == ApplyFilters(fs, filters)
                  IN  [kind |-> "ok",
                       value |-> Truncate(SortByDateDesc(filtered), filters.limit)]

(***************************************************************************)
(* Inputs.                                                                 *)
(***************************************************************************)
RECURSIVE SeqsUpTo(_, _)
SeqsUpTo(S, n) ==
    IF n = 0 THEN {<<>>}
    ELSE LET shorter == SeqsUpTo(S, n - 1)
         IN  shorter \cup {Append(q, x) : q \in {r \in shorter : Len(r) = n - 1}, x \in S}

\* raw company records: str(cik_str) is kept as its decimal digits
RawCompanies ==
    { [ticker |-> <<"a">>, cik_str |-> <<"5">>, title |-> <<"X">>],
      [ticker |-> <<" ", "A">>,
       cik_str |-> <<"1", "2", "3", "4", "5", "6", "7", "8", "9", "0">>,
       title |-> <<"Y">>],
      [ticker |-> <<"b", " ">>,
       cik_str |-> <<"1", "2", "3", "4", "5", "6", "7", "8", "9", "0", "1">>,
       title |-> <<"X">>],
      [ticker |-> <<"B">>, cik_str |-> <<"-", "5">>, title |-> <<"X">>],
      [ticker |-> <<"q">>, cik_str |-> <<"5">>, title |-> <<>>],
      [ticker |-> <<" ">>, cik_str |-> <<"5">>, title |-> <<"X">>] }

TickerArgs ==
    { <<>>, <<" ">>, <<"a">>, <<" ", "A", " ">>, <<"b">>, <<"B", " ">>,
      <<"q">>, <<"k">> }

Digs(n) == [i \in 1..n |-> IF i = n THEN "7" ELSE "0"]

\* cik arguments of Company(): digit strings of 9..11 characters, the same
\* with one character replaced, and whitespace-padded ones
CikInputs ==
    {<<>>, <<" ">> \o Digs(CikLen) \o <<" ">>, <<" ">> \o Digs(CikLen - 2) \o <<" ">>,
     [i \in 1..CikLen |-> " "]}
    \cup {Digs(n) : n \in (CikLen - 1)..(CikLen + 1)}
    \cup {[Digs(n) EXCEPT ![p] = c] :
             n \in (CikLen - 1)..(CikLen + 1), p \in {1, 5, CikLen - 1},
             c \in {" ", "x", "-"}}

CompanyTickerInputs == {<<>>, <<" ">>, <<" ", " ">>, <<"a">>, <<" ", "a", "B", " ">>}
CompanyNameInputs == {<<>>, <<"X">>}

Date1 == <<2022, 6, 30>>
Date2 == <<2023, 1, 15>>

CikKey == Zeros(CikLen - 1) \o <<"1">>
CikArgs == {<<>>, <<" ">>, <<" ", "1">>, <<"2">>}

Accession(i) == <<"A", CHOOSE c \in DigitChars : DigitVal(c) = i>>

Day20230115 == <<"2", "0", "2", "3", "-", "0", "1", "-", "1", "5">>
Day20220630 == <<"2", "0", "2", "2", "-", "0", "6", "-", "3", "0">>
Day2022630 == <<"2", "0", "2", "2", "-", "6", "-", "3", "0">>
Day20230230 == <<"2", "0", "2", "3", "-", "0", "2", "-", "3", "0">>
Day2023x01 == <<"2", "0", "2", "3", "-", "x", "-", "0", "1">>
Day202301 == <<"2", "0", "2", "3", "-", "0", "1">>

\* the raw record at position i of a list, in one of five shapes; the
\* malformed shape depends on the position
RawFiling(shape, i) ==
    LET base(form, day) ==
            [company_name |-> <<"X">>, form_type |-> form, filing_date |-> day,
             accession_number |-> Accession(i)]
    IN  CASE shape = 1 -> base(<<"k">>, Day20230115)
          [] shape = 2 -> base(<<"Q", " ">>, Day2022630)
          [] shape = 3 -> base(<<"K">>, Day20220630)
          [] shape = 4 -> base(<<" ", "q">>, Day20230115)
          [] shape = 5 /\ i % 4 = 1 ->
               [company_name |-> <<"X">>, form_type |-> <<"K">>,
                filing_date |-> Day20230115]
          [] shape = 5 /\ i % 4 = 2 -> base(<<"K">>, Day20230230)
          [] shape = 5 /\ i % 4 = 3 -> base(<<"K">>, Day2023x01)
          [] shape = 5 /\ i % 4 = 0 -> base(<<"K">>, Day202301)

Shapes == 1..5

RawFilingLists ==
    {[i \in 1..Len(q) |-> RawFiling(q[i], i)] : q \in SeqsUpTo(Shapes, MaxRecs)}

FormTypesInputs ==
    {None, Some(<<>>), Some(<<<<" ">>>>), Some(<<<<"k">>, <<>>>>),
     Some(<<<<"q", " ">>, <<"K">>>>)}
DateInputs == {None, Some(Date1), Some(Date2)}
LimitInputs == {0, 1, 2, MaxLimit, MaxLimit + 1}

(***************************************************************************)
(* State machine: SECClient is constructed once (Init), then queried.      *)
(***************************************************************************)
NoCall == [op |-> "none"]
NoRet == [kind |-> "none", value |-> <<>>]

InitCompanies ==
    /\ companies_by_ticker \in
           {BuildTickerIndex(items) : items \in SeqsUpTo(RawCompanies, MaxCompanies)}
    /\ filings = EmptyDict
    /\ call = NoCall
    /\ ret = NoRet

InitFilings ==
    /\ companies_by_ticker = EmptyDict
    /\ filings \in {[k \in {CikKey} |-> l] : l \in RawFilingLists}
    /\ call = NoCall
    /\ ret = NoRet

Init == InitCompanies \/ InitFilings

LookupCompany ==
    \E ticker \in TickerArgs :
        /\ call = NoCall
        /\ call' = [op |-> "lookup_company", ticker |-> ticker]
        /\ ret' = lookup_company(companies_by_ticker, ticker)
        /\ UNCHANGED <<companies_by_ticker, filings>>

\* the caller builds the FilingFilter first; list_filings runs only when
\* that construction succeeded
ListFilings ==
    \E cik \in CikArgs, ft \in FormTypesInputs, df \in DateInputs,
       dt \in DateInputs, limit \in LimitInputs :
        LET flt == FilingFilter(ft, df, dt, limit)
        IN  /\ call = NoCall
            /\ flt # None
            /\ call' = [op |-> "list_filings", cik |-> cik, filters |-> flt[1]]
            /\ ret' = list_filings(filings, cik, flt[1])
            /\ UNCHANGED <<companies_by_ticker, filings>>

NewCompany ==
    \E ticker \in CompanyTickerInputs, cik \in CikInputs, name \in CompanyNameInputs :
        LET c == Company(ticker, cik, name)
        IN  /\ call = NoCall
            /\ call' = [op |-> "Company", ticker |-> ticker, cik |-> cik, name |-> name]
            /\ ret' = [kind |-> IF c = None THEN "ValidationError" ELSE "ok",
                       value |-> c]
            /\ UNCHANGED <<companies_by_ticker, filings>>

NewFilingFilter ==
    \E ft \in FormTypesInputs, df \in DateInputs, dt \in DateInputs,
       limit \in LimitInputs :
        LET flt == FilingFilter(ft, df, dt, limit)
        IN  /\ call = NoCall
            /\ call' = [op |-> "FilingFilter", form_types |-> ft, date_from |-> df,
                        date_to |-> dt, limit |-> limit]
            /\ ret' = [kind |-> IF flt = None THEN "ValidationError" ELSE "ok",
                       value |-> flt]
            /\ UNCHANGED <<companies_by_ticker, filings>>

\* the caller has consumed the outcome; the client is ready for the next call
Return ==
    /\ call # NoCall
    /\ call' = NoCall
    /\ ret' = NoRet
    /\ UNCHANGED <<companies_by_ticker, filings>>

NextCompanies == LookupCompany \/ NewCompany \/ Return
NextFilings == ListFilings \/ NewFilingFilter \/ Return
Next == LookupCompany \/ ListFilings \/ NewCompany \/ NewFilingFilter \/ Return

SpecCompanies == InitCompanies /\ [][NextCompanies]_vars
SpecFilings == InitFilings /\ [][NextFilings]_vars
Spec == Init /\ [][Next]_vars

(***************************************************************************)
(* Reference notions used by the properties, stated independently of the   *)
(* engine: which raw records are well formed, and the Filing each stands   *)
(* for.                                                                    *)
(***************************************************************************)
ListCall == call.op = "list_filings"
ListOk == ListCall /\ ret.kind = "ok"
RawList == filings[CikKey]
Flt == call.filters

RefDate(day) ==
    IF day = Day20230115 THEN Some(Date2)
    ELSE IF day \in {Day20220630, Day2022630} THEN Some(Date1)
    ELSE None

RefForm(form) == IF form \in {<<"k">>, <<"K">>} THEN <<"K">> ELSE <<"Q">>

WellFormed(rec) == FilingKeys \subseteq DOMAIN rec /\ RefDate(rec.filing_date) # None

RefFiling(rec) ==
    [cik |-> CikKey, company_name |-> rec.company_name,
     form_type |-> RefForm(rec.form_type),
     filing_date |-> RefDate(rec.filing_date)[1],
     accession_number |-> rec.accession_number]

ValidPositions == {i \in 1..Len(RawList) : WellFormed(RawList[i])}

FormTypeSet == {Flt.form_types[1][j] : j \in 1..Len(Flt.form_types[1])}

FormMatches(rec) == Flt.form_types = None \/ RefForm(rec.form_type) \in FormTypeSet

\* Date1 is the earlier of the two dates of the model
RefLeq(a, b) == a = b \/ (a = Date1 /\ b = Date2)

DateMatches(rec) ==
    /\ Flt.date_from = None \/ RefLeq(Flt.date_from[1], RefDate(rec.filing_date)[1])
    /\ Flt.date_to = None \/ RefLeq(RefDate(rec.filing_date)[1], Flt.date_to[1])

\* positions of the raw records that are valid and pass every present predicate
Matching == {i \in ValidPositions : FormMatches(RawList[i]) /\ DateMatches(RawList[i])}

Returned(i) == \E k \in 1..Len(ret.value) : ret.value[k] = RefFiling(RawList[i])

\* raw position of a returned filing (accession numbers are unique per list)
Pos(f) ==
    CHOOSE i \in 1..Len(RawList) :
        /\ "accession_number" \in DOMAIN RawList[i]
        /\ RawList[i].accession_number = f.accession_number

(***************************************************************************)
(* C1: whenever the filter's form_types is present (not None), every       *)
(* filing returned by list_filings has a normalized form_type that is a    *)
(* member of the filter's normalized form_types, also when normalization   *)
(* left that list empty.                                                   *)
(***************************************************************************)
C1_FormTypeMembership ==
    (ListOk /\ Flt.form_types # None) =>
        \A k \in 1..Len(ret.value) : ret.value[k].form_type \in FormTypeSet

(***************************************************************************)
(* C2: the result of list_filings has at most filter.limit entries, and    *)
(* when fewer than limit valid records pass the present predicates, every  *)
(* one of them is in the result; an indexed CIK never makes the call fail. *)
(***************************************************************************)
C2_LimitBound ==
    ListCall =>
        /\ (Zfill(Strip(call.cik), CikLen) \in DOMAIN filings /\ Strip(call.cik) # <<>>)
               => ret.kind = "ok"
        /\ Len(ret.value) <= Flt.limit
        /\ (ret.kind = "ok" /\ Cardinality(Matching) < Flt.limit)
               => \A i \in Matching : Returned(i)

C2_Witness ==
    /\ ListOk
    /\ Flt.limit = 2
    /\ Cardinality(Matching) = 3
    /\ Len(ret.value) = 2

(***************************************************************************)
(* C3: the result is the stable descending sort by filing_date: adjacent   *)
(* entries are non-increasing, equal dates keep the order of their raw     *)
(* records, and no matching record left out is strictly more recent than   *)
(* a returned one.                                                         *)
(***************************************************************************)
C3_StableDescending ==
    ListOk =>
        /\ \A k \in 1..(Len(ret.value) - 1) :
               /\ RefLeq(ret.value[k + 1].filing_date, ret.value[k].filing_date)
               /\ ret.value[k + 1].filing_date = ret.value[k].filing_date
                      => Pos(ret.value[k]) < Pos(ret.value[k + 1])
        /\ \A i \in Matching : \A k \in 1..Len(ret.value) :
               Returned(i) \/
               RefLeq(RefDate(RawList[i].filing_date)[1], ret.value[k].filing_date)

C3_Witness ==
    /\ ListOk
    /\ Len(ret.value) = 2
    /\ ret.value[1].filing_date = ret.value[2].filing_date
    /\ Pos(ret.value[1]) = 2
    /\ Pos(ret.value[2]) = 3
    /\ 1 \in Matching

(***************************************************************************)
(* C4: a raw record that cannot be turned into a Filing is dropped and     *)
(* never makes list_filings fail: the call on an indexed CIK returns, each *)
(* returned filing comes from a well-formed record, the result equals the  *)
(* one computed from the well-formed records alone, and it is empty when   *)
(* every record is malformed.                                              *)
(***************************************************************************)
C4_MalformedDropped ==
    (ListCall /\ Strip(call.cik) # <<>> /\ Zfill(Strip(call.cik), CikLen) = CikKey) =>
        /\ ret.kind = "ok"
        /\ \A k \in 1..Len(ret.value) :
               \E i \in ValidPositions : ret.value[k] = RefFiling(RawList[i])
        /\ ret = list_filings([c \in {CikKey} |-> SelectSeq(RawList, WellFormed)],
                              call.cik, Flt)
        /\ ValidPositions = {} => ret.value = <<>>
        /\ (Flt.form_types = None /\ Flt.date_from = None /\ Flt.date_to = None
            /\ Flt.limit >= Len(RawList))
               => \A i \in ValidPositions : Returned(i)

C4_Witness ==
    /\ ListOk
    /\ Len(RawList) = 3
    /\ Cardinality(ValidPositions) = 1
    /\ Len(ret.value) = 1

(***************************************************************************)
(* C10: the date predicates are inclusive and AND-combined with each other *)
(* and with the form_types predicate: every returned filing lies within    *)
(* the present bounds, a matching filing dated exactly date_from or        *)
(* date_to is lost only to truncation, and an absent field excludes        *)
(* nothing.                                                                *)
(***************************************************************************)
C10_DatePredicates ==
    ListOk =>
        /\ \A k \in 1..Len(ret.value) :
               /\ Flt.date_from # None
                      => RefLeq(Flt.date_from[1], ret.value[k].filing_date)
               /\ Flt.date_to # None
                      => RefLeq(ret.value[k].filing_date, Flt.date_to[1])
        /\ \A i \in Matching : Returned(i) \/ Len(ret.value) = Flt.limit
        /\ (Flt.form_types = None /\ Flt.date_from = None /\ Flt.date_to = None)
               => \A i \in ValidPositions : Returned(i) \/ Len(ret.value) = Flt.limit

C10_Witness ==
    /\ ListOk
    /\ Flt.date_from = Some(Date1)
    /\ Flt.date_to = Some(Date1)
    /\ Flt.form_types # None
    /\ Flt.form_types[1] # <<>>
    /\ Len(ret.value) = 1
    /\ ret.value[1].filing_date = Date1
    /\ Cardinality(ValidPositions) = 3

(***************************************************************************)
(* Reference notions for the company side.                                 *)
(***************************************************************************)
LookupCall == call.op = "lookup_company"
CompanyCall == call.op = "Company"
FilterCall == call.op = "FilingFilter"

Blank(str) == \A i \in 1..Len(str) : str[i] = " "
TenDigits(str) == Len(str) = CikLen /\ \A i \in 1..Len(str) : str[i] \in DigitChars
AllDigits(str) == Len(str) >= 1 /\ \A i \in 1..Len(str) : str[i] \in DigitChars

\* the trimmed, uppercased form T of a ticker argument
NormTicker(ticker) == Strip(Upper(ticker))

\* the Company the claim names for an indexed T
NamedCompany(T) ==
    LET raw == companies_by_ticker[T]
    IN  [ticker |-> T,
         cik |-> Zeros(CikLen - Len(raw.cik_str)) \o raw.cik_str,
         name |-> raw.title]

SameOutcomeForSameT ==
    \A other \in TickerArgs :
        NormTicker(other) = NormTicker(call.ticker)
            => lookup_company(companies_by_ticker, other) = ret

(***************************************************************************)
(* C5 as stated: lookup_company depends only on the trimmed, uppercased    *)
(* form T of its argument, and whenever T is a key of the ticker index the *)
(* call returns Company(T, cik_str zero-padded to 10 digits, title).       *)
(***************************************************************************)
C5_Original ==
    LookupCall =>
        /\ SameOutcomeForSameT
        /\ NormTicker(call.ticker) \in DOMAIN companies_by_ticker
               => /\ ret.kind = "ok"
                  /\ ret.value = Some(NamedCompany(NormTicker(call.ticker)))

(***************************************************************************)
(* C5 amended: lookup_company depends only on T, and when T is a non-empty *)
(* key of the ticker index whose raw record has a cik_str of at most 10    *)
(* digits (not negative) and a non-empty title, the call returns           *)
(* Company(T, cik_str zero-padded to 10 digits, title); for any other      *)
(* indexed record it fails with the ValidationError, and an empty T is     *)
(* InvalidInput even when it is a key.                                     *)
(***************************************************************************)
C5_LookupByNormalizedTicker ==
    LookupCall =>
        /\ SameOutcomeForSameT
        /\ LET T == NormTicker(call.ticker)
               usable == /\ AllDigits(companies_by_ticker[T].cik_str)
                         /\ Len(companies_by_ticker[T].cik_str) <= CikLen
                         /\ companies_by_ticker[T].title # <<>>
           IN  /\ T = <<>> => ret.kind = "InvalidInput"
               /\ (T # <<>> /\ T \in DOMAIN companies_by_ticker /\ usable)
                      => /\ ret.kind = "ok"
                         /\ ret.value = Some(NamedCompany(T))
               /\ (T # <<>> /\ T \in DOMAIN companies_by_ticker /\ ~usable)
                      => ret.kind = "ValidationError"

C5_Witness ==
    /\ LookupCall
    /\ call.ticker = <<" ", "A", " ">>
    /\ ret.kind = "ok"
    /\ ret.value[1].ticker = <<"A">>
    /\ ret.value[1].cik = Zeros(CikLen - 1) \o <<"5">>
    /\ Cardinality(DOMAIN companies_by_ticker) = 2

(***************************************************************************)
(* C6: lookup_company and list_filings fail with InvalidInput on an empty  *)
(* or whitespace-only identifier whatever the index holds, and with        *)
(* NotFound when the identifier is non-blank but its normalized form is    *)
(* not a key of the index; neither case returns a value.                   *)
(***************************************************************************)
C6_BadIdentifier ==
    /\ LookupCall =>
           /\ Blank(call.ticker) => ret = [kind |-> "InvalidInput", value |-> <<>>]
           /\ (~Blank(call.ticker)
               /\ NormTicker(call.ticker) \notin DOMAIN companies_by_ticker)
                  => ret = [kind |-> "NotFound", value |-> <<>>]
    /\ ListCall =>
           /\ Blank(call.cik) => ret = [kind |-> "InvalidInput", value |-> <<>>]
           /\ (~Blank(call.cik)
               /\ Zfill(Strip(call.cik), CikLen) \notin DOMAIN filings)
                  => ret = [kind |-> "NotFound", value |-> <<>>]

C6_Witness ==
    /\ ListCall
    /\ call.cik = <<" ">>
    /\ CikKey \in DOMAIN filings
    /\ Len(filings[CikKey]) > 0
    /\ ret.kind = "InvalidInput"

(***************************************************************************)
(* C7: every successfully constructed Company has a ticker that is         *)
(* non-empty and equal to its own uppercased, trimmed form, for every      *)
(* input ticker, whitespace-only ones included.                            *)
(***************************************************************************)
C7_TickerNonEmpty ==
    (CompanyCall /\ ret.kind = "ok") =>
        /\ ret.value[1].ticker # <<>>
        /\ ret.value[1].ticker = Strip(Upper(ret.value[1].ticker))

(***************************************************************************)
(* C8: Company construction (valid ticker and name) succeeds for every cik *)
(* of exactly 10 digits and fails for every cik with a non-digit or a      *)
(* length other than 10; a Company returned by lookup_company has a cik of *)
(* exactly 10 digits, and a raw cik_str that is negative or longer than 10 *)
(* digits makes lookup_company fail with the ValidationError.              *)
(***************************************************************************)
C8_CikTenDigits ==
    /\ CompanyCall =>
           /\ (TenDigits(call.cik) /\ call.ticker # <<>> /\ call.name # <<>>)
                  => /\ ret.kind = "ok"
                     /\ ret.value[1].cik = call.cik
           /\ ~TenDigits(call.cik) => ret = [kind |-> "ValidationError", value |-> <<>>]
    /\ LookupCall =>
           /\ ret.kind = "ok" => TenDigits(ret.value[1].cik)
           /\ LET T == NormTicker(call.ticker)
              IN  (/\ T # <<>>
                   /\ T \in DOMAIN companies_by_ticker
                   /\ \/ Len(companies_by_ticker[T].cik_str) > CikLen
                      \/ companies_by_ticker[T].cik_str[1] = "-")
                      => ret = [kind |-> "ValidationError", value |-> <<>>]

C8_Witness ==
    /\ CompanyCall
    /\ Len(call.cik) = CikLen
    /\ call.cik[1] = " "
    /\ AllDigits(Tail(call.cik))
    /\ call.ticker # <<>>
    /\ call.name # <<>>
    /\ ret.kind = "ValidationError"

(***************************************************************************)
(* C9: FilingFilter construction fails when both dates are present and     *)
(* date_to is earlier than date_from, and when limit is outside 1..1000;   *)
(* it accepts equal dates and a single date; so every filter list_filings  *)
(* receives has 1 <= limit <= 1000 and date_to >= date_from when both are  *)
(* present.                                                                *)
(***************************************************************************)
C9_FilterInvariant ==
    /\ FilterCall =>
           LET reversed == /\ call.date_from # None
                           /\ call.date_to # None
                           /\ call.date_from[1] = Date2
                           /\ call.date_to[1] = Date1
               badLimit == call.limit < 1 \/ call.limit > 1000
           IN  /\ (reversed \/ badLimit)
                      => ret = [kind |-> "ValidationError", value |-> <<>>]
               /\ ~(reversed \/ badLimit)
                      => /\ ret.kind = "ok"
                         /\ ret.value[1].limit = call.limit
                         /\ ret.value[1].date_from = call.date_from
                         /\ ret.value[1].date_to = call.date_to
    /\ ListCall =>
           /\ Flt.limit >= 1
           /\ Flt.limit <= 1000
           /\ (Flt.date_from # None /\ Flt.date_to # None)
                  => RefLeq(Flt.date_from[1], Flt.date_to[1])

C9_Witness ==
    /\ FilterCall
    /\ call.date_from = Some(Date2)
    /\ call.date_to = Some(Date1)
    /\ call.limit = 1
    /\ ret.kind = "ValidationError"

====
